---- MODULE Spec2Model ----
(***************************************************************************)
(* daggerpool, pkg/workerpool: the result model of job_result.go           *)
(* (JobResult, DAGResult and the DAG-aware views computed over them) and   *)
(* the worker pool's run (Start) that fills a DAGResult.                   *)
(*                                                                         *)
(* Five specifications share the variables:                                *)
(*   Spec          a run of WorkerPool.Start over a validated DAG          *)
(*   LiveSpec      Spec with the fairness the goroutine scheduler gives    *)
(*   SpecQuery     the pure views applied to a DAG and a DAGResult         *)
(*   SpecResult    a DAGResult under its mutators and aggregate predicates *)
(*   SpecReserved  SpecResult for DAGs that may name a job like the        *)
(*                 sentinel key                                            *)
(***************************************************************************)
EXTENDS Integers, Sequences, FiniteSets, TLC

VARIABLES
    dag,                \* DAG: job name -> sequence of dependency names
    result,             \* DAGResult: key -> JobResult
    out,                \* the last call of a view or predicate and what it returned
    maxConcurrentJobs,  \* the pool's concurrency limit
    counter,            \* live dependency counter per job
    queue,              \* eligible jobs queued for dispatch
    running,            \* jobs whose operation is executing
    completed,          \* completion events not yet consumed by the scheduler loop
    pc,                 \* "idle" | "running" | "ended" | "returned"
    invoked,            \* history: jobs whose operation has been invoked
    returned            \* history: job -> what its operation returned

vars == <<dag, result, out, maxConcurrentJobs, counter, queue, running,
          completed, pc, invoked, returned>>

poolVars == <<maxConcurrentJobs, counter, queue, running, completed, pc,
              invoked, returned>>

-----------------------------------------------------------------------------
(* JobStatus, job_result.go:11-17 *)

JobStatusUnknown == 0
JobStatusSuccess == 1
JobStatusInProgress == 2
JobStatusSkipped == 3
JobStatusFailed == 4

JobStatuses == {JobStatusUnknown, JobStatusSuccess, JobStatusInProgress,
                JobStatusSkipped, JobStatusFailed}

timeoutError == "timeout_error"

\* The nil error, and the empty Name of a JobResult built without one.
NilError == "<nil>"
NoName == ""

-----------------------------------------------------------------------------
(* Strings in sort.Strings order.  Every name of the model is listed here,  *)
(* in byte-wise lexicographic order (upper case sorts before lower case).   *)

NameOrder == <<"A", "B", "C", "D", "E", "timeout_error">>

Rank(s) == CHOOSE i \in 1..Len(NameOrder) : NameOrder[i] = s

StrLess(a, b) == Rank(a) < Rank(b)

Range(s) == {s[i] : i \in 1..Len(s)}

\* Insert x into the sorted sequence s, after the elements not greater than x.
RECURSIVE Insert(_, _)
Insert(x, s) ==
    IF s = <<>> THEN <<x>>
    ELSE IF StrLess(x, Head(s)) THEN <<x>> \o s
    ELSE <<Head(s)>> \o Insert(x, Tail(s))

\* sort.Strings
RECURSIVE SortStrings(_)
SortStrings(s) ==
    IF s = <<>> THEN <<>> ELSE Insert(Head(s), SortStrings(Tail(s)))

\* The orders in which a Go range statement may visit the keys of a map.
RECURSIVE Orders(_)
Orders(S) ==
    IF S = {} THEN {<<>>}
    ELSE UNION {{<<x>> \o o : o \in Orders(S \ {x})} : x \in S}

-----------------------------------------------------------------------------
(* JobResult and DAGResult *)

JobResult(name, status, err) == [Name |-> name, Status |-> status, Error |-> err]

\* Mutant of newDAGResult: the entries are built without their Name.
newDAGResultWithoutName(d) ==
    [jobName \in DOMAIN d |-> JobResult(NoName, JobStatusUnknown, NilError)]

newDAGResult(d) == [jobName \in DOMAIN d |-> JobResult(jobName, JobStatusUnknown, NilError)]

Skip(j) == [j EXCEPT !.Status = JobStatusSkipped]

\* Mutant of Success: the wrong status constant.
SuccessAsInProgress(j) == [j EXCEPT !.Status = JobStatusInProgress]

Success(j) == [j EXCEPT !.Status = JobStatusSuccess]

\* Mutant of Fail: the error is not stored.
FailDropsError(j, err) == [j EXCEPT !.Status = JobStatusFailed]

Fail(j, err) == [j EXCEPT !.Status = JobStatusFailed, !.Error = err]

\* Mutant of NotReady: the wrong status constant.
NotReadyAsSkipped(j) == [j EXCEPT !.Status = JobStatusSkipped]

NotReady(j) == [j EXCEPT !.Status = JobStatusInProgress]

\* fmt.Errorf("timeout after %v", deadline.Seconds())
TimeoutErrorf(deadline) == "timeout after " \o deadline

\* r[timeoutError] = &JobResult{Status: Failed, Error: ...}: the key is added
\* or, when it is there already, its entry replaced.
TimeoutError(r, deadline) ==
    [k \in DOMAIN r \cup {timeoutError} |->
        IF k = timeoutError
        THEN JobResult(NoName, JobStatusFailed, TimeoutErrorf(deadline))
        ELSE r[k]]

TimeoutErrorKey == timeoutError

\* One enumeration of a set: the keys of a map as one range statement yields them.
RECURSIVE Keys(_)
Keys(S) ==
    IF S = {} THEN <<>>
    ELSE LET x == CHOOSE y \in S : TRUE IN <<x>> \o Keys(S \ {x})

orderedJobs(r) == SortStrings(Keys(DOMAIN r))

IsFailedJob(j) == j.Status = JobStatusFailed
IsSkipped(j) == j.Status = JobStatusSkipped
IsInProgress(j) == j.Status = JobStatusInProgress

\* Mutant of IsReadyFrom: the loop falls through to return false.
RECURSIVE IsReadyFromDefaultFalse(_, _)
IsReadyFromDefaultFalse(r, keys) ==
    IF keys = <<>> THEN FALSE
    ELSE IF IsSkipped(r[Head(keys)]) \/ IsInProgress(r[Head(keys)])
            \/ IsFailedJob(r[Head(keys)])
         THEN FALSE
         ELSE IsReadyFromDefaultFalse(r, Tail(keys))

\* The loop of IsReady over the sorted keys, with its early return.
RECURSIVE IsReadyFrom(_, _)
IsReadyFrom(r, keys) ==
    IF keys = <<>> THEN TRUE
    ELSE IF IsSkipped(r[Head(keys)]) \/ IsInProgress(r[Head(keys)])
            \/ IsFailedJob(r[Head(keys)])
         THEN FALSE
         ELSE IsReadyFrom(r, Tail(keys))

IsReady(r) == IsReadyFrom(r, orderedJobs(r))

IsNotReady(r) == ~IsReady(r)

IsTimeouted(r) == timeoutError \in DOMAIN r

\* The loop of FirstError over the entries in the order the range statement
\* yields them.
RECURSIVE FirstError(_, _)
FirstError(r, order) ==
    IF order = <<>> THEN NilError
    ELSE IF r[Head(order)].Error # NilError THEN r[Head(order)].Error
         ELSE FirstError(r, Tail(order))

\* Mutant of IsFailed: an entry counts as failed when it holds an error.
RECURSIVE IsFailedByError(_, _)
IsFailedByError(r, order) ==
    IF order = <<>> THEN FALSE
    ELSE IF r[Head(order)].Error # NilError THEN TRUE
         ELSE IsFailedByError(r, Tail(order))

\* DAGResult.IsFailed: the loop over the entries in range order.
RECURSIVE IsFailed(_, _)
IsFailed(r, order) ==
    IF order = <<>> THEN FALSE
    ELSE IF r[Head(order)].Status = JobStatusFailed THEN TRUE
         ELSE IsFailed(r, Tail(order))

\* DAGResult.IsSuccessful: the loop over the entries in range order.
RECURSIVE IsSuccessful(_, _)
IsSuccessful(r, order) ==
    IF order = <<>> THEN TRUE
    ELSE IF r[Head(order)].Status # JobStatusSuccess THEN FALSE
         ELSE IsSuccessful(r, Tail(order))

\* A *JobResult: nil, or a reference to an entry.
NilPtr == [nil |-> TRUE]
Ptr(jr) == [nil |-> FALSE, ref |-> jr]

RECURSIVE FirstInProgressFrom(_, _)
FirstInProgressFrom(r, keys) ==
    IF keys = <<>> THEN NilPtr
    ELSE IF IsInProgress(r[Head(keys)]) THEN Ptr(r[Head(keys)])
         ELSE FirstInProgressFrom(r, Tail(keys))

\* Mutant of FirstInProgress: the keys are not sorted.
FirstInProgressUnsorted(r, order) == FirstInProgressFrom(r, order)

\* order: the order in which orderedJobs' range statement yields the keys.
FirstInProgress(r, order) == FirstInProgressFrom(r, SortStrings(order))

get(r, job) ==
    IF job \in DOMAIN r THEN r[job] ELSE JobResult(job, JobStatusUnknown, NilError)

\* Mutant of getEffect: the default entry is stored under the missing key.
getStoresDefault(r, job) ==
    [k \in DOMAIN r \cup {job} |->
        IF k \in DOMAIN r THEN r[k] ELSE JobResult(job, JobStatusUnknown, NilError)]

\* What a call of get leaves in r: for a key r does not hold, get returns a
\* fresh JobResult and stores nothing.
getEffect(r, job) == r

\* r after get has been called for each of the jobs in turn.
RECURSIVE AfterGets(_, _)
AfterGets(r, jobs) ==
    IF jobs = <<>> THEN r ELSE AfterGets(getEffect(r, Head(jobs)), Tail(jobs))

isSuccess(r, job) == get(r, job).Status = JobStatusSuccess

-----------------------------------------------------------------------------
(* The DAG-aware views.  A DAG is a function from its keys to sequences of  *)
(* names; reading a key the map does not hold yields the empty list.        *)

Deps(d, n) == IF n \in DOMAIN d THEN d[n] ELSE <<>>

\* The loop of Blockers: the dependencies that are not successful, in list order.
RECURSIVE NotSuccessOf(_, _)
NotSuccessOf(r, deps) ==
    IF deps = <<>> THEN <<>>
    ELSE IF ~isSuccess(r, Head(deps))
         THEN <<Head(deps)>> \o NotSuccessOf(r, Tail(deps))
         ELSE NotSuccessOf(r, Tail(deps))

\* Mutant of Blockers: the output is left in the order of the dependency list.
BlockersUnsorted(r, d, job) ==
    IF Len(Deps(d, job)) = 0 THEN <<>>
    ELSE NotSuccessOf(r, Deps(d, job))

Blockers(r, d, job) ==
    IF Len(Deps(d, job)) = 0 THEN <<>>
    ELSE SortStrings(NotSuccessOf(r, Deps(d, job)))

\* The jobs Blockers calls get for.
BlockersGets(d, job) == Deps(d, job)

\* rev[dep] = append(rev[dep], n)
AppendEdge(rev, dep, n) ==
    [k \in DOMAIN rev \cup {dep} |->
        IF k = dep THEN Append(IF dep \in DOMAIN rev THEN rev[dep] ELSE <<>>, n)
        ELSE rev[k]]

RECURSIVE AppendEdges(_, _, _)
AppendEdges(rev, deps, n) ==
    IF deps = <<>> THEN rev
    ELSE AppendEdges(AppendEdge(rev, Head(deps), n), Tail(deps), n)

RECURSIVE ReverseLoop(_, _, _)
ReverseLoop(rev, d, order) ==
    IF order = <<>> THEN rev
    ELSE ReverseLoop(AppendEdges(rev, d[Head(order)], Head(order)), d, Tail(order))

\* order: the order in which the second range statement visits the DAG's keys.
reverseDAG(d, order) == ReverseLoop([n \in DOMAIN d |-> <<>>], d, order)

\* The closure dfs of Subtree; st holds the captured seen and out, and calls,
\* the number of times dfs has been entered so far.
RECURSIVE dfs(_, _, _)
RECURSIVE dfsEach(_, _, _)

\* Mutant of dfs: the seen guard is missing (the traversal is cut off once it
\* has entered dfs more often than any graph of the model allows).
dfsWithoutSeen(edges, n, st) ==
    IF st.calls > 20 THEN st
    ELSE dfsEach(edges, Deps(edges, n),
                 [seen |-> st.seen \cup {n}, out |-> Append(st.out, n),
                  calls |-> st.calls + 1])

dfs(edges, n, st) ==
    IF n \in st.seen THEN [st EXCEPT !.calls = @ + 1]
    ELSE dfsEach(edges, Deps(edges, n),
                 [seen |-> st.seen \cup {n}, out |-> Append(st.out, n),
                  calls |-> st.calls + 1])

dfsEach(edges, succs, st) ==
    IF succs = <<>> THEN st
    ELSE dfsEach(edges, Tail(succs), dfs(edges, Head(succs), st))

\* Mutant of Subtree: the output is left in visiting order.
SubtreeUnsorted(edges, root) ==
    dfs(edges, root, [seen |-> {}, out |-> <<>>, calls |-> 0]).out

Subtree(edges, root) ==
    SortStrings(dfs(edges, root, [seen |-> {}, out |-> <<>>, calls |-> 0]).out)

\* How often one call of Subtree enters dfs.
SubtreeCalls(edges, root) ==
    dfs(edges, root, [seen |-> {}, out |-> <<>>, calls |-> 0]).calls

FrontierItem(job, status, blockedBy, subtree) ==
    [Job |-> job, Status |-> status, BlockedBy |-> blockedBy, Subtree |-> subtree]

\* sort.Slice(items, items[i].Job < items[j].Job)
RECURSIVE InsertItem(_, _)
InsertItem(x, s) ==
    IF s = <<>> THEN <<x>>
    ELSE IF StrLess(x.Job, Head(s).Job) THEN <<x>> \o s
    ELSE <<Head(s)>> \o InsertItem(x, Tail(s))

RECURSIVE SortItems(_)
SortItems(s) ==
    IF s = <<>> THEN <<>> ELSE InsertItem(Head(s), SortItems(Tail(s)))

\* Mutant of IsFrontier: InProgress jobs are reported only when unblocked.
IsFrontierWithoutInProgress(status, blockedBy) ==
    status = JobStatusFailed \/ Len(blockedBy) = 0

\* Mutant of IsFrontier: an unblocked job is reported only when it is Failed or
\* InProgress.
IsFrontierOnlyFailedOrInProgress(status, blockedBy) ==
    status = JobStatusFailed \/ status = JobStatusInProgress

\* Whether the loop of Frontiers appends an item for a job of this status.
IsFrontier(status, blockedBy) ==
    status = JobStatusFailed \/ status = JobStatusInProgress \/ Len(blockedBy) = 0

RECURSIVE FrontierLoop(_, _, _, _)
FrontierLoop(r, d, rev, order) ==
    IF order = <<>> THEN <<>>
    ELSE LET job == Head(order)
             jr == get(r, job)
             blockedBy == Blockers(r, d, job)
             rest == FrontierLoop(r, d, rev, Tail(order))
         IN IF jr.Status = JobStatusSuccess THEN rest
            ELSE IF IsFrontier(jr.Status, blockedBy)
                 THEN <<FrontierItem(job, jr.Status, blockedBy, Subtree(rev, job))>> \o rest
                 ELSE rest

\* revOrder, order: the orders of the range statements of reverseDAG and of
\* Frontiers itself.
Frontiers(r, d, revOrder, order) ==
    SortItems(FrontierLoop(r, d, reverseDAG(d, revOrder), order))

\* The jobs Frontiers calls get for: each key, and through Blockers the
\* dependencies of each key that is not Success.
RECURSIVE FrontiersGets(_, _, _)
FrontiersGets(r, d, order) ==
    IF order = <<>> THEN <<>>
    ELSE <<Head(order)>>
         \o (IF isSuccess(r, Head(order)) THEN <<>> ELSE BlockersGets(d, Head(order)))
         \o FrontiersGets(r, d, Tail(order))

\* The closure hasNotSuccessInSubtree of BoundarySubtrees.  memo is the captured
\* memo map, threaded through the calls; visiting holds the jobs on the call
\* stack (each call adds its job and the deferred delete removes it on return);
\* calls is the number of times the closure has been entered so far.
\* The value is [val |-> what the call returns, memo |-> memo after the call,
\* calls |-> the count after the call].
RECURSIVE hasNotSuccessInSubtree(_, _, _, _, _, _)
RECURSIVE hasNotSuccessLoop(_, _, _, _, _, _, _)
hasNotSuccessInSubtree(r, succ, job, memo, visiting, calls) ==
    IF job \in DOMAIN memo THEN [val |-> memo[job], memo |-> memo, calls |-> calls + 1]
    ELSE IF job \in visiting THEN [val |-> FALSE, memo |-> memo, calls |-> calls + 1]
    ELSE hasNotSuccessLoop(r, succ, job, Deps(succ, job), memo,
                           visiting \cup {job}, calls + 1)

SetMemo(memo, job, v) ==
    [k \in DOMAIN memo \cup {job} |-> IF k = job THEN v ELSE memo[k]]

\* Mutant of hasNotSuccessLoop: only the direct successors are looked at.
RECURSIVE hasNotSuccessLoopDirect(_, _, _, _, _, _, _)
hasNotSuccessLoopDirect(r, succ, job, ss, memo, visiting, calls) ==
    IF ss = <<>>
    THEN [val |-> FALSE, memo |-> SetMemo(memo, job, FALSE), calls |-> calls]
    ELSE IF ~isSuccess(r, Head(ss))
         THEN [val |-> TRUE, memo |-> SetMemo(memo, job, TRUE), calls |-> calls]
         ELSE hasNotSuccessLoopDirect(r, succ, job, Tail(ss), memo, visiting, calls)

hasNotSuccessLoop(r, succ, job, ss, memo, visiting, calls) ==
    IF ss = <<>>
    THEN [val |-> FALSE, memo |-> SetMemo(memo, job, FALSE), calls |-> calls]
    ELSE IF ~isSuccess(r, Head(ss))
         THEN [val |-> TRUE, memo |-> SetMemo(memo, job, TRUE), calls |-> calls]
         ELSE LET sub == hasNotSuccessInSubtree(r, succ, Head(ss), memo, visiting, calls)
              IN IF sub.val
                 THEN [val |-> TRUE, memo |-> SetMemo(sub.memo, job, TRUE),
                       calls |-> sub.calls]
                 ELSE hasNotSuccessLoop(r, succ, job, Tail(ss), sub.memo, visiting,
                                        sub.calls)

\* The loop of BoundarySubtrees over the DAG's keys; st is [out, memo, calls].
RECURSIVE BoundaryLoop(_, _, _, _)
BoundaryLoop(r, succ, order, st) ==
    IF order = <<>> THEN st
    ELSE LET job == Head(order) IN
         IF ~isSuccess(r, job) THEN BoundaryLoop(r, succ, Tail(order), st)
         ELSE LET h == hasNotSuccessInSubtree(r, succ, job, st.memo, {}, st.calls)
              IN BoundaryLoop(r, succ, Tail(order),
                              [out |-> IF h.val THEN Append(st.out, job) ELSE st.out,
                               memo |-> h.memo, calls |-> h.calls])

EmptyMap == [k \in {} |-> FALSE]

\* Mutant of BoundarySubtrees: the output is not sorted.
BoundarySubtreesUnsorted(r, d, revOrder, order) ==
    BoundaryLoop(r, reverseDAG(d, revOrder), order,
                 [out |-> <<>>, memo |-> EmptyMap, calls |-> 0]).out

\* revOrder, order: the orders of the range statements of reverseDAG and of
\* BoundarySubtrees itself.
BoundarySubtrees(r, d, revOrder, order) ==
    SortStrings(BoundaryLoop(r, reverseDAG(d, revOrder), order,
                             [out |-> <<>>, memo |-> EmptyMap, calls |-> 0]).out)

\* The jobs BoundarySubtrees calls get for: keys of the DAG, in its own loop
\* and as successors in hasNotSuccessInSubtree.
BoundarySubtreesGets(d, order) == order \o order

\* How often one call of BoundarySubtrees enters hasNotSuccessInSubtree.
BoundarySubtreesCalls(r, d, revOrder, order) ==
    BoundaryLoop(r, reverseDAG(d, revOrder), order,
                 [out |-> <<>>, memo |-> EmptyMap, calls |-> 0]).calls

-----------------------------------------------------------------------------
(* Reference notions the properties are stated with, defined on sets and    *)
(* independently of the traversals above.                                   *)

StatusOf(r, job) == IF job \in DOMAIN r THEN r[job].Status ELSE JobStatusUnknown

DepSet(d, n) == IF n \in DOMAIN d THEN Range(d[n]) ELSE {}

\* Everything reachable from the names in S by following dependency edges.
RECURSIVE DepClosure(_, _)
DepClosure(d, S) ==
    LET next == S \cup UNION {DepSet(d, x) : x \in S}
    IN IF next = S THEN S ELSE DepClosure(d, next)

\* The jobs k depends on, directly or transitively.
TransitiveDeps(d, k) == DepClosure(d, DepSet(d, k))

\* The jobs that depend on j, directly or transitively.
Dependents(d, j) == {k \in DOMAIN d : j \in TransitiveDeps(d, k)}

DirectDependents(d, j) == {k \in DOMAIN d : j \in DepSet(d, k)}

Acyclic(d) == \A k \in DOMAIN d : k \notin TransitiveDeps(d, k)

NoDanglingDeps(d) == \A k \in DOMAIN d : DepSet(d, k) \subseteq DOMAIN d

IsSortedStrings(s) == \A i \in 1..(Len(s) - 1) : StrLess(s[i], s[i + 1])

\* s lists exactly the names of S, each once, in lexicographic order.
IsSortedListOf(s, S) ==
    /\ Range(s) = S
    /\ Len(s) = Cardinality(S)
    /\ IsSortedStrings(s)

-----------------------------------------------------------------------------
(* Bounds *)

\* The job names of the DAGs the views are applied to.
QueryNames == {"A", "B", "C"}

\* The most dependency edges a DAG of SpecQuery has.
MaxEdges == 3

RECURSIVE SumLen(_, _)
SumLen(d, K) ==
    IF K = {} THEN 0
    ELSE LET k == CHOOSE x \in K : TRUE IN Len(d[k]) + SumLen(d, K \ {k})

\* Dependency lists of at most n names: every list, in every order, lists that
\* name a job more than once included.
DepLists(N, n) == UNION {[1..m -> N] : m \in 0..n}

\* The maps from the keys K to dependency lists with at most n edges in all.
RECURSIVE DAGsOver(_, _)
DAGsOver(K, n) ==
    IF K = {} THEN {[k \in {} |-> <<>>]}
    ELSE LET k == CHOOSE x \in K : TRUE IN
         UNION {{[x \in K |-> IF x = k THEN l ELSE d[x]] :
                    d \in DAGsOver(K \ {k}, n - Len(l))} :
                l \in DepLists(QueryNames, n)}

\* Every map from some of the names to dependency lists, cyclic ones and ones
\* with dependencies that are no key included.
QueryDAGs == UNION {DAGsOver(K, MaxEdges) : K \in SUBSET QueryNames}

QueryError == "boom"

\* The entries a key can hold after newDAGResult and one mutator call.
EntriesOf(k) ==
    {JobResult(k, st, NilError) : st \in JobStatuses \ {JobStatusFailed}}
        \cup {JobResult(k, JobStatusFailed, QueryError)}

QueryResults(K) ==
    {r \in [K -> UNION {EntriesOf(k) : k \in K}] : \A k \in K : r[k].Name = k}

NoCall == [op |-> "none"]

PoolIdle ==
    /\ maxConcurrentJobs = 0
    /\ counter = EmptyMap
    /\ queue = {}
    /\ running = {}
    /\ completed = {}
    /\ pc = "idle"
    /\ invoked = {}
    /\ returned = EmptyMap

-----------------------------------------------------------------------------
(* SpecQuery: the views applied to a DAG and a DAGResult *)

\* The result holds an entry for some or all of the DAG's keys: a view may be
\* given a result that lacks the entry of a job.
QueryInit ==
    /\ dag \in QueryDAGs
    /\ result \in UNION {QueryResults(K) : K \in SUBSET DOMAIN dag}
    /\ out = NoCall
    /\ PoolIdle

\* A call of a view: out holds the view, its argument and what it returned.
CallBlockers(job) ==
    /\ out = NoCall
    /\ out' = [op |-> "Blockers", arg |-> job, val |-> Blockers(result, dag, job)]
    /\ result' = AfterGets(result, BlockersGets(dag, job))
    /\ UNCHANGED <<dag, poolVars>>

\* Subtree reads its edge mapping only.
CallSubtree(root) ==
    /\ out = NoCall
    /\ out' = [op |-> "Subtree", arg |-> root, val |-> Subtree(dag, root),
               calls |-> SubtreeCalls(dag, root)]
    /\ UNCHANGED <<dag, result, poolVars>>

CallBoundarySubtrees ==
    /\ out = NoCall
    /\ \E revOrder \in Orders(DOMAIN dag), order \in Orders(DOMAIN dag) :
          /\ out' = [op |-> "BoundarySubtrees", arg |-> NoName,
                     val |-> BoundarySubtrees(result, dag, revOrder, order),
                     calls |-> BoundarySubtreesCalls(result, dag, revOrder, order)]
          /\ result' = AfterGets(result, BoundarySubtreesGets(dag, order))
    /\ UNCHANGED <<dag, poolVars>>

CallFrontiers ==
    /\ out = NoCall
    /\ \E revOrder \in Orders(DOMAIN dag), order \in Orders(DOMAIN dag) :
          /\ out' = [op |-> "Frontiers", arg |-> NoName,
                     val |-> Frontiers(result, dag, revOrder, order)]
          /\ result' = AfterGets(result, FrontiersGets(result, dag, order))
    /\ UNCHANGED <<dag, poolVars>>

QueryNext ==
    \/ \E job \in QueryNames : CallBlockers(job)
    \/ \E root \in QueryNames : CallSubtree(root)
    \/ CallBoundarySubtrees
    \/ CallFrontiers

SpecQuery == QueryInit /\ [][QueryNext]_vars

-----------------------------------------------------------------------------
(* Spec: a run of WorkerPool.Start.  The pool's code is not among the       *)
(* sources; the run is modelled from the specification's execution model:   *)
(* a scheduling loop that owns the counters and the result, dispatches      *)
(* eligible jobs under a semaphore, and consumes one completion event at a  *)
(* time until the run ends (all jobs terminal, a job failed, or timeout).   *)

\* The DAG of the README's example.
ExampleDAG ==
    [A |-> <<>>, B |-> <<"A">>, C |-> <<"A">>, D |-> <<"B", "C">>, E |-> <<"D">>]

\* The largest concurrency limit a pool is built with.
MaxConcurrency == 2

\* NewWorkerPool accepts a DAG whose keys are the jobs, without dangling
\* dependencies and without cycles.
ValidDAG(d) == DOMAIN d # {} /\ NoDanglingDeps(d) /\ Acyclic(d)

PoolDAGs ==
    {ExampleDAG} \cup
    {d \in QueryDAGs : ValidDAG(d) /\ \A k \in DOMAIN d : IsSortedStrings(d[k])}

\* The global timeout the pool is built with, as deadline.Seconds() prints it.
GlobalTimeout == "60"

\* The error a job's operation returns when it fails.
JobError(j) == "error of " \o j

\* What a job's operation may return: (ready, err).
Outcomes(j) ==
    {[ready |-> rd, err |-> e] : rd \in BOOLEAN, e \in {NilError, JobError(j)}}

NotReadyOutcome == [ready |-> FALSE, err |-> NilError]
ReadyOutcome == [ready |-> TRUE, err |-> NilError]

PoolInit ==
    /\ dag \in PoolDAGs
    /\ maxConcurrentJobs \in 1..MaxConcurrency
    /\ result = newDAGResult(dag)
    /\ counter = [j \in DOMAIN dag |-> Len(dag[j])]
    /\ queue = {j \in DOMAIN dag : Len(dag[j]) = 0}
    /\ running = {}
    /\ completed = {}
    /\ pc = "running"
    /\ invoked = {}
    /\ returned = EmptyMap
    /\ out = NoCall

\* Mutant of SlotFree: the semaphore is not consulted.
SlotAlwaysFree == TRUE

\* A slot of the concurrency semaphore is free.
SlotFree == Cardinality(running) < maxConcurrentJobs

\* A queued job may be started: the run's context is live, a slot is free and
\* the job has not been skipped.
MayDispatch(j) ==
    /\ pc = "running"
    /\ j \in queue
    /\ ~IsSkipped(result[j])
    /\ SlotFree

\* The scheduler starts the operation of an eligible job.
Dispatch(j) ==
    /\ MayDispatch(j)
    /\ queue' = queue \ {j}
    /\ running' = running \cup {j}
    /\ invoked' = invoked \cup {j}
    /\ UNCHANGED <<dag, result, out, maxConcurrentJobs, counter, completed, pc, returned>>

\* A job's operation returns and its completion event is sent to the loop;
\* the semaphore slot is released.
JobReturns(j, o) ==
    /\ j \in running
    /\ running' = running \ {j}
    /\ completed' = completed \cup {j}
    /\ returned' = [k \in DOMAIN returned \cup {j} |-> IF k = j THEN o ELSE returned[k]]
    /\ UNCHANGED <<dag, result, out, maxConcurrentJobs, counter, queue, pc, invoked>>

\* Mutant of SkippedBy: the dependency edges are followed instead of the
\* reverse edges.
SkippedByAncestors(j) == TransitiveDeps(dag, j)

\* The successors a not-ready job causes to be skipped.
SkippedBy(j) == Dependents(dag, j) \ {j}

\* The result after the outcome o of job j is classified.
Classify(r, j, o) ==
    IF o.err # NilError THEN [r EXCEPT ![j] = Fail(@, o.err)]
    ELSE IF ~o.ready
         THEN [k \in DOMAIN r |->
                 IF k = j THEN NotReady(r[k])
                 ELSE IF k \in SkippedBy(j) THEN Skip(r[k])
                 ELSE r[k]]
         ELSE [r EXCEPT ![j] = Success(@)]

\* The counters after job j succeeded: each direct successor loses one.
Decremented(j) ==
    [k \in DOMAIN counter |->
        IF k \in DirectDependents(dag, j) THEN counter[k] - 1 ELSE counter[k]]

\* The bookkeeping of one consumed completion event: the result is classified
\* and, when the job succeeded, the counters of its direct successors are
\* decremented and those that reach zero are queued.
Bookkeeping(j) ==
    /\ completed' = completed \ {j}
    /\ result' = Classify(result, j, returned[j])
    /\ IF returned[j] = ReadyOutcome
       THEN /\ counter' = Decremented(j)
            /\ queue' = queue \cup
                   {k \in DirectDependents(dag, j) : Decremented(j)[k] = 0}
       ELSE UNCHANGED <<counter, queue>>

\* The scheduler loop consumes the completion event of job j; an error cancels
\* the run-scoped context and the run ends.
Complete(j) ==
    /\ pc = "running"
    /\ j \in completed
    /\ Bookkeeping(j)
    /\ pc' = IF returned[j].err # NilError THEN "ended" ELSE pc
    /\ UNCHANGED <<dag, out, maxConcurrentJobs, running, invoked, returned>>

\* After a failure cancelled the run, Start waits for the executions in flight.
\* Whether an outcome that arrives then is still recorded is left open by the
\* specification: it may be (this action) or not (Return without it).  After a
\* timeout the statuses stay as they were when it fired.
LateComplete(j) ==
    /\ pc = "ended"
    /\ ~IsTimeouted(result)
    /\ j \in completed
    /\ Bookkeeping(j)
    /\ UNCHANGED <<dag, out, maxConcurrentJobs, running, invoked, returned, pc>>

\* The global timeout elapses before the run has ended.
Timeout ==
    /\ pc = "running"
    /\ result' = TimeoutError(result, GlobalTimeout)
    /\ pc' = "ended"
    /\ UNCHANGED <<dag, out, maxConcurrentJobs, counter, queue, running, completed,
                   invoked, returned>>

\* Every job has reached a terminal status: the loop ends.
Finish ==
    /\ pc = "running"
    /\ \A j \in DOMAIN dag : result[j].Status # JobStatusUnknown
    /\ pc' = "ended"
    /\ UNCHANGED <<dag, result, out, maxConcurrentJobs, counter, queue, running,
                   completed, invoked, returned>>

\* Start waits for the in-flight executions and returns the result.
Return ==
    /\ pc = "ended"
    /\ running = {}
    /\ pc' = "returned"
    /\ UNCHANGED <<dag, result, out, maxConcurrentJobs, counter, queue, running,
                   completed, invoked, returned>>

PoolNext ==
    \/ \E j \in DOMAIN dag : Dispatch(j)
    \/ \E j \in DOMAIN dag : \E o \in Outcomes(j) : JobReturns(j, o)
    \/ \E j \in DOMAIN dag : Complete(j)
    \/ \E j \in DOMAIN dag : LateComplete(j)
    \/ Timeout
    \/ Finish
    \/ Return

Spec == PoolInit /\ [][PoolNext]_vars

\* The goroutine scheduler runs every goroutine that can run, and a job's
\* operation returns: no step of the run that stays possible is put off forever.
LiveSpec ==
    /\ Spec
    /\ \A j \in DOMAIN ExampleDAG :
          /\ WF_vars(Dispatch(j))
          /\ WF_vars(\E o \in Outcomes(j) : JobReturns(j, o))
          /\ WF_vars(Complete(j))
    /\ WF_vars(Finish)
    /\ WF_vars(Return)

-----------------------------------------------------------------------------
(* SpecResult: a DAGResult from newDAGResult under its mutators, and the    *)
(* aggregate predicates applied to it.                                      *)

\* The jobs of the DAGs SpecResult builds results for.
ResultNames == {"A", "B", "C"}

\* newDAGResult reads the keys of the DAG only.
ResultDAGs == UNION {[K -> {<<>>}] : K \in SUBSET ResultNames}

ResultInit ==
    /\ dag \in ResultDAGs
    /\ result = newDAGResult(dag)
    /\ out = NoCall
    /\ PoolIdle

MarkSuccess(k) ==
    /\ out = NoCall
    /\ result' = [result EXCEPT ![k] = Success(@)]
    /\ UNCHANGED <<dag, out, poolVars>>

MarkSkip(k) ==
    /\ out = NoCall
    /\ result' = [result EXCEPT ![k] = Skip(@)]
    /\ UNCHANGED <<dag, out, poolVars>>

MarkNotReady(k) ==
    /\ out = NoCall
    /\ result' = [result EXCEPT ![k] = NotReady(@)]
    /\ UNCHANGED <<dag, out, poolVars>>

MarkFail(k, err) ==
    /\ out = NoCall
    /\ result' = [result EXCEPT ![k] = Fail(@, err)]
    /\ UNCHANGED <<dag, out, poolVars>>

MarkTimeout ==
    /\ out = NoCall
    /\ result' = TimeoutError(result, GlobalTimeout)
    /\ UNCHANGED <<dag, out, poolVars>>

CallIsReady ==
    /\ out = NoCall
    /\ out' = [op |-> "IsReady", val |-> IsReady(result)]
    /\ UNCHANGED <<dag, result, poolVars>>

\* The predicates that range over the map are called with every order the
\* range statement may take.
CallIsSuccessful ==
    /\ out = NoCall
    /\ \E order \in Orders(DOMAIN result) :
          out' = [op |-> "IsSuccessful", val |-> IsSuccessful(result, order)]
    /\ UNCHANGED <<dag, result, poolVars>>

CallIsFailed ==
    /\ out = NoCall
    /\ \E order \in Orders(DOMAIN result) :
          out' = [op |-> "IsFailed", val |-> IsFailed(result, order)]
    /\ UNCHANGED <<dag, result, poolVars>>

CallFirstError ==
    /\ out = NoCall
    /\ \E order \in Orders(DOMAIN result) :
          out' = [op |-> "FirstError", val |-> FirstError(result, order)]
    /\ UNCHANGED <<dag, result, poolVars>>

CallFirstInProgress ==
    /\ out = NoCall
    /\ \E order \in Orders(DOMAIN result) :
          out' = [op |-> "FirstInProgress", val |-> FirstInProgress(result, order)]
    /\ UNCHANGED <<dag, result, poolVars>>

CallIsTimeouted ==
    /\ out = NoCall
    /\ out' = [op |-> "IsTimeouted", val |-> IsTimeouted(result)]
    /\ UNCHANGED <<dag, result, poolVars>>

ResultNext ==
    \/ \E k \in DOMAIN dag : MarkSuccess(k)
    \/ \E k \in DOMAIN dag : MarkSkip(k)
    \/ \E k \in DOMAIN dag : MarkNotReady(k)
    \/ \E k \in DOMAIN dag : MarkFail(k, QueryError)
    \/ MarkTimeout
    \/ CallIsReady
    \/ CallIsSuccessful
    \/ CallIsFailed
    \/ CallFirstError
    \/ CallFirstInProgress
    \/ CallIsTimeouted

SpecResult == ResultInit /\ [][ResultNext]_vars

\* SpecReserved: the same, for DAGs that may name a job like the sentinel key;
\* neither newDAGResult nor TimeoutError looks at the names of the jobs.
ReservedNames == {"A", timeoutError}

ReservedDAGs == UNION {[K -> {<<>>}] : K \in SUBSET ReservedNames}

ReservedInit ==
    /\ dag \in ReservedDAGs
    /\ result = newDAGResult(dag)
    /\ out = NoCall
    /\ PoolIdle

SpecReserved == ReservedInit /\ [][ResultNext]_vars

-----------------------------------------------------------------------------
(* Properties of the views *)

\* The entries of the jobs: every entry but the sentinel's.
JobKeys(r) == DOMAIN r \ {timeoutError}

\* C1: IsReady returns true if and only if every job entry other than the
\* sentinel "timeout_error" entry has status Success; a result with a job that
\* is still Unknown is not ready.
C1_IsReadyIffAllSuccess ==
    out.op = "IsReady" =>
        (out.val <=> \A k \in JobKeys(result) : result[k].Status = JobStatusSuccess)

\* The Success jobs that some job that is not Success depends on, directly or
\* transitively.
BoundaryJobs(r, d) ==
    {j \in DOMAIN d :
        /\ StatusOf(r, j) = JobStatusSuccess
        /\ \E k \in Dependents(d, j) : StatusOf(r, k) # JobStatusSuccess}

\* C8: on an acyclic DAG, BoundarySubtrees returns, sorted by name, exactly the
\* Success jobs with a job that is not Success among the jobs transitively
\* depending on them, and the empty list when every job is Success.
C8_BoundarySubtreesExact ==
    (out.op = "BoundarySubtrees" /\ Acyclic(dag)) =>
        /\ IsSortedListOf(out.val, BoundaryJobs(result, dag))
        /\ (\A j \in DOMAIN dag : StatusOf(result, j) = JobStatusSuccess)
              => out.val = <<>>

\* A boundary job all of whose direct dependents are Success: it is on the
\* boundary because of a job further down.
C8_Witness ==
    /\ out.op = "BoundarySubtrees"
    /\ Acyclic(dag)
    /\ \E j \in Range(out.val) :
          /\ DirectDependents(dag, j) # {}
          /\ \A k \in DirectDependents(dag, j) : StatusOf(result, k) = JobStatusSuccess
    /\ \E j \in DOMAIN dag : j \notin Range(out.val)

\* The jobs Frontiers is to report.
FrontierJobs(r, d) ==
    {j \in DOMAIN d :
        /\ StatusOf(r, j) # JobStatusSuccess
        /\ \/ StatusOf(r, j) = JobStatusFailed
           \/ StatusOf(r, j) = JobStatusInProgress
           \/ Blockers(r, d, j) = <<>>}

\* C10: Frontiers holds one item per job that is not Success and is Failed,
\* InProgress or without blockers, and no other item; the items are sorted by
\* job name; an item's BlockedBy is Blockers of its job and its Subtree is the
\* sorted list of the job and the jobs transitively depending on it.
C10_FrontiersExact ==
    out.op = "Frontiers" =>
        /\ IsSortedListOf([i \in 1..Len(out.val) |-> out.val[i].Job],
                          FrontierJobs(result, dag))
        /\ \A i \in 1..Len(out.val) :
              LET item == out.val[i] IN
              /\ StatusOf(result, item.Job) # JobStatusSuccess
              /\ item.Status = StatusOf(result, item.Job)
              /\ item.BlockedBy = Blockers(result, dag, item.Job)
              /\ IsSortedListOf(item.Subtree,
                                {item.Job} \cup Dependents(dag, item.Job))
        /\ \A j \in DOMAIN dag :
              StatusOf(result, j) \in {JobStatusFailed, JobStatusInProgress}
                  => \E i \in 1..Len(out.val) : out.val[i].Job = j

\* Frontiers reports a blocked Failed job, an unblocked Skipped job with a
\* dependent, and leaves a blocked Unknown job out.
C10_Witness ==
    /\ out.op = "Frontiers"
    /\ \E i \in 1..Len(out.val) :
          out.val[i].Status = JobStatusFailed /\ out.val[i].BlockedBy # <<>>
    /\ \E i \in 1..Len(out.val) :
          /\ out.val[i].Status \in {JobStatusUnknown, JobStatusSkipped}
          /\ Len(out.val[i].Subtree) > 1
    /\ \E j \in DOMAIN dag :
          /\ StatusOf(result, j) = JobStatusUnknown
          /\ \A i \in 1..Len(out.val) : out.val[i].Job # j

-----------------------------------------------------------------------------
(* Properties of a run of Start *)

\* The operation of j has returned.
HasReturned(j) == j \in DOMAIN returned

\* The scheduler loop consumed the completion event of j before the run ended.
Consumed(j) == HasReturned(j) /\ j \notin completed

\* C2: a job's operation is invoked only when every one of its direct
\* dependencies already has status Success in the result map.
C2_DispatchAfterDeps ==
    [][\A j \in DOMAIN dag :
          (j \in invoked' /\ j \notin invoked) =>
              \A d \in DepSet(dag, j) : result[d].Status = JobStatusSuccess]_vars

\* A job with two dependencies has been invoked.
C2_Witness == \E j \in invoked : Cardinality(DepSet(dag, j)) >= 2

SomeFailed == \E j \in DOMAIN dag : IsFailedJob(result[j])

C5_ConcurrencyBound == Cardinality(running) <= maxConcurrentJobs

\* The limit is reached while another eligible job waits for a slot.
C5_Witness ==
    /\ Cardinality(running) = maxConcurrentJobs
    /\ \E j \in queue : pc = "running" /\ ~IsSkipped(result[j])

\* C6: a job's status changes only from Unknown and so at most once; a job
\* marked Skipped is never dispatched, and a job that was dispatched is never
\* marked Skipped.
C6_StatusSetOnce ==
    [][\A j \in DOMAIN dag :
          /\ result[j].Status # JobStatusUnknown
                => result'[j].Status = result[j].Status
          /\ result'[j].Status \in JobStatuses
          /\ IsSkipped(result[j]) => (j \notin invoked /\ j \notin invoked')
          /\ j \in invoked => ~IsSkipped(result'[j])]_vars

\* Start has returned a result with a Success, an InProgress and a Skipped job.
C6_Witness ==
    /\ pc = "returned"
    /\ \E j \in DOMAIN dag : result[j].Status = JobStatusSuccess
    /\ \E j \in DOMAIN dag : result[j].Status = JobStatusInProgress
    /\ \E j \in DOMAIN dag : result[j].Status = JobStatusSkipped

AllJobsSuccess == \A j \in DOMAIN dag : result[j].Status = JobStatusSuccess

\* Some operation returned something other than (true, nil).
SomeOtherOutcome == \E j \in DOMAIN returned : returned[j] # ReadyOutcome

\* C7: if every operation returns (true, nil) and the timeout does not fire,
\* Start eventually returns a result in which every job is Success, there is no
\* sentinel entry and IsReady is true.
C7_AllReadyRunSucceeds ==
    <>(\/ SomeOtherOutcome
       \/ IsTimeouted(result)
       \/ /\ pc = "returned"
          /\ AllJobsSuccess
          /\ DOMAIN result = DOMAIN dag
          /\ IsReady(result))

\* The run of the README's example returned with all five jobs Success.
C7_Witness ==
    /\ pc = "returned"
    /\ dag = ExampleDAG
    /\ ~SomeOtherOutcome
    /\ ~IsTimeouted(result)
    /\ AllJobsSuccess
    /\ IsReady(result)

\* The result of the example: B returned (false, nil).
ExampleResult ==
    /\ dag = ExampleDAG
    /\ DOMAIN result = DOMAIN dag
    /\ result["A"].Status = JobStatusSuccess
    /\ result["C"].Status = JobStatusSuccess
    /\ result["B"].Status = JobStatusInProgress
    /\ result["D"].Status = JobStatusSkipped
    /\ result["E"].Status = JobStatusSkipped

\* C9 as stated: on the example's result BoundarySubtrees returns ["A"].
C9_Original ==
    ExampleResult =>
        \A revOrder \in Orders(DOMAIN dag), order \in Orders(DOMAIN dag) :
            BoundarySubtrees(result, dag, revOrder, order) = <<"A">>

\* C9 amended: on the example's result BoundarySubtrees returns ["A", "C"]: C is
\* Success and D, which depends on it, is Skipped.
C9_ExampleBoundary ==
    ExampleResult =>
        \A revOrder \in Orders(DOMAIN dag), order \in Orders(DOMAIN dag) :
            BoundarySubtrees(result, dag, revOrder, order) = <<"A", "C">>

\* Start has returned the example's result.
C9_Witness == pc = "returned" /\ ExampleResult

-----------------------------------------------------------------------------
(* Properties of Blockers and Subtree, of the views as functions, and of    *)
(* the traversals' length                                                   *)

\* The direct dependencies of a job that are not Success; a dependency without
\* an entry in the result is not Success.
BlockingDeps(r, d, job) ==
    {x \in DepSet(d, job) : StatusOf(r, x) # JobStatusSuccess}

\* How often the list s names x.
Count(s, x) == Cardinality({i \in 1..Len(s) : s[i] = x})

\* C11: Blockers returns, in lexicographic order, exactly the direct
\* dependencies of the job that are not Success (each as often as the job's
\* dependency list names it, so once for a list without repetitions), and the
\* empty list when the job has no dependencies or all of them are Success.
C11_BlockersExact ==
    out.op = "Blockers" =>
        /\ Range(out.val) = BlockingDeps(result, dag, out.arg)
        /\ \A x \in Range(out.val) : Count(out.val, x) = Count(Deps(dag, out.arg), x)
        /\ \A i \in 1..(Len(out.val) - 1) : ~StrLess(out.val[i + 1], out.val[i])
        /\ (\A x \in DepSet(dag, out.arg) : StatusOf(result, x) = JobStatusSuccess)
              => out.val = <<>>

\* Blockers of a job with a Success dependency, a dependency that has no entry
\* and another blocker, listed in an order the sort has to change.
C11_Witness ==
    /\ out.op = "Blockers"
    /\ Len(out.val) >= 2
    /\ \E x \in Range(out.val) : x \notin DOMAIN result
    /\ \E x \in DepSet(dag, out.arg) : StatusOf(result, x) = JobStatusSuccess
    /\ out.val # NotSuccessOf(result, Deps(dag, out.arg))

\* C12: Subtree returns, sorted and without duplicates, exactly the nodes
\* reachable from root along the edges, root included also when it has no edges
\* or is no key; this list is unique for the input, so a second call with the
\* same input returns the same list.
C12_SubtreeExact ==
    out.op = "Subtree" =>
        /\ IsSortedListOf(out.val, DepClosure(dag, {out.arg}))
        /\ out.arg \in Range(out.val)
        /\ out.arg \notin DOMAIN dag => out.val = <<out.arg>>

\* Subtree over a cycle through three nodes, visited in an order the sort has
\* to change.
C12_Witness ==
    /\ out.op = "Subtree"
    /\ Len(out.val) = 3
    /\ out.arg \in TransitiveDeps(dag, out.arg)
    /\ out.val # SubtreeUnsorted(dag, out.arg)

\* A call of a view leaves the DAGResult and the DAG as they were.
ViewsLeaveInputs == result' = result /\ dag' = dag

\* Another call of the view called last, with the same argument, returns what
\* the last call returned, whatever order its range statements take.
ViewsRepeat ==
    /\ out.op = "Blockers" => Blockers(result, dag, out.arg) = out.val
    /\ out.op = "Subtree" => Subtree(dag, out.arg) = out.val
    /\ out.op = "Frontiers" =>
          \A revOrder \in Orders(DOMAIN dag), order \in Orders(DOMAIN dag) :
              Frontiers(result, dag, revOrder, order) = out.val
    /\ out.op = "BoundarySubtrees" =>
          \A revOrder \in Orders(DOMAIN dag), order \in Orders(DOMAIN dag) :
              BoundarySubtrees(result, dag, revOrder, order) = out.val

Edges(d) == SumLen(d, DOMAIN d)

\* C20: Subtree and BoundarySubtrees terminate on every finite graph, cyclic
\* ones included: Subtree enters dfs at most once for the root and once per
\* edge, BoundarySubtrees enters hasNotSuccessInSubtree at most once per key
\* and once per edge.
C20_TraversalsTerminate ==
    /\ out.op = "Subtree" => out.calls <= 1 + Edges(dag)
    /\ out.op = "BoundarySubtrees" =>
          out.calls <= Cardinality(DOMAIN dag) + Edges(dag)

\* BoundarySubtrees over a graph with a cycle of Success jobs, where the
\* closure is entered for a job that is on the call stack.
C20_Witness ==
    /\ out.op = "BoundarySubtrees"
    /\ ~Acyclic(dag)
    /\ \A j \in DOMAIN dag : StatusOf(result, j) = JobStatusSuccess
    /\ out.calls > Cardinality(DOMAIN dag)

-----------------------------------------------------------------------------
(* Properties of the DAGResult under its mutators *)

\* C13: IsSuccessful returns true if and only if every job entry, the sentinel
\* entry excluded, has status Success; the sentinel entry does not change the
\* answer.
C13_IsSuccessfulIffAllSuccess ==
    out.op = "IsSuccessful" =>
        (out.val <=> \A k \in JobKeys(result) : result[k].Status = JobStatusSuccess)

C15_ErrorImpliesIsFailed ==
    /\ out.op = "IsFailed" =>
          ((\E k \in DOMAIN result : result[k].Error # NilError) => out.val)
    /\ out.op = "FirstError" =>
          (out.val # NilError =>
              \A order \in Orders(DOMAIN result) : IsFailed(result, order))

\* A step of TimeoutError.
TimeoutErrorStep == result' = TimeoutError(result, GlobalTimeout) /\ out' = out

\* The step leaves the JobResult of every job as it was and leaves no key but
\* the sentinel's beside the jobs'.
OnlySentinelAdded ==
    /\ \A k \in DOMAIN dag : result'[k] = result[k]
    /\ DOMAIN result' \ DOMAIN dag = {timeoutError}

\* IsTimeouted does not turn true in the step.
NotTimeoutedByStep == IsTimeouted(result') => IsTimeouted(result)

\* C16: the sentinel entry is distinct from every job's result: TimeoutError
\* leaves the JobResult of each job as it was and only adds the sentinel entry,
\* and IsTimeouted is false on a result on which TimeoutError has not been
\* called: it is false on the result of newDAGResult and turns true only in a
\* step of TimeoutError.
C16_SentinelDistinct ==
    /\ ~IsTimeouted(result)
    /\ [][IF TimeoutErrorStep THEN OnlySentinelAdded ELSE NotTimeoutedByStep]_vars

\* The entry with the smallest key among the entries that are InProgress.
SmallestInProgress(r) ==
    LET S == {k \in DOMAIN r : r[k].Status = JobStatusInProgress}
    IN r[CHOOSE k \in S : \A x \in S \ {k} : StrLess(k, x)]

\* C17: FirstInProgress returns the entry with the smallest key among the
\* InProgress entries, and nil if and only if no entry is InProgress, whatever
\* order the map is ranged over in.
C17_FirstInProgressSmallest ==
    out.op = "FirstInProgress" =>
        /\ out.val.nil <=>
              ~\E k \in DOMAIN result : result[k].Status = JobStatusInProgress
        /\ ~out.val.nil => out.val.ref = SmallestInProgress(result)

\* FirstInProgress has returned the second of three jobs: the first is not
\* InProgress, the third is, and the result holds the sentinel entry.
C17_Witness ==
    /\ out.op = "FirstInProgress"
    /\ ~out.val.nil
    /\ out.val.ref.Name = "B"
    /\ "A" \in DOMAIN result
    /\ "C" \in DOMAIN result /\ result["C"].Status = JobStatusInProgress
    /\ IsTimeouted(result)

-----------------------------------------------------------------------------
(* Frontiers explains every result that is not fully successful *)

\* C21: on an acyclic DAG in which every dependency is a key, Frontiers is
\* empty if and only if every job of the DAG is Success: when some job is not
\* Success, at least one frontier item is reported.
C21_FrontiersEmptyIffAllSuccess ==
    (out.op = "Frontiers" /\ Acyclic(dag) /\ NoDanglingDeps(dag)) =>
        (out.val = <<>> <=>
            \A j \in DOMAIN dag : StatusOf(result, j) = JobStatusSuccess)

\* Frontiers on a chain of three jobs, none Failed or InProgress and two of
\* them not Success: the one item is the unblocked job, the blocked job behind
\* it is left out.
C21_Witness ==
    /\ out.op = "Frontiers"
    /\ Acyclic(dag) /\ NoDanglingDeps(dag)
    /\ Cardinality(DOMAIN dag) = 3
    /\ Len(out.val) = 1
    /\ out.val[1].Status \in {JobStatusUnknown, JobStatusSkipped}
    /\ DepSet(dag, out.val[1].Job) # {}
    /\ Dependents(dag, out.val[1].Job) # {}

====
